---- MODULE Spec2Model ----
(* Model of the notify command line utility (src/main.go).                  *)
(*                                                                          *)
(* One invocation is a process p: main parses os.Args token by token,       *)
(* validates the request, and displayNotification creates the icon file,    *)
(* pushes the toast and removes the icon file.  Two invocations share the   *)
(* temp directory.  Strings are sequences of one-character strings, so that *)
(* HasPrefix, TrimPrefix, Atoi, ToLower and Title are computed as the       *)
(* library computes them.                                                   *)
EXTENDS Integers, Sequences, FiniteSets, TLC

\* ------------------------------------------------------------------ bounds
\* Longest argument vector (os.Args[1:]) an invocation is started with.
MaxArgs == 3

\* ----------------------------------------------------------------- strings
Empty == << >>

Upper == <<"A","B","C","D","E","F","G","H","I","J","K","L","M",
           "N","O","P","Q","R","S","T","U","V","W","X","Y","Z">>
Lower == <<"a","b","c","d","e","f","g","h","i","j","k","l","m",
           "n","o","p","q","r","s","t","u","v","w","x","y","z">>
Digits == <<"0","1","2","3","4","5","6","7","8","9">>

IndexIn(c, tbl) == IF \E k \in 1..Len(tbl) : tbl[k] = c
                   THEN CHOOSE k \in 1..Len(tbl) : tbl[k] = c
                   ELSE 0

\* strings.HasPrefix
HasPrefix(s, prefix) ==
    /\ Len(s) >= Len(prefix)
    /\ SubSeq(s, 1, Len(prefix)) = prefix

\* strings.TrimPrefix
TrimPrefix(s, prefix) ==
    IF HasPrefix(s, prefix) THEN SubSeq(s, Len(prefix) + 1, Len(s)) ELSE s

LowerOf(c) == IF IndexIn(c, Upper) > 0 THEN Lower[IndexIn(c, Upper)] ELSE c
UpperOf(c) == IF IndexIn(c, Lower) > 0 THEN Upper[IndexIn(c, Lower)] ELSE c

\* strings.ToLower
ToLower(s) == [k \in 1..Len(s) |-> LowerOf(s[k])]

\* A character that ends a word for strings.Title: anything but a letter,
\* a digit or an underscore.
IsSeparator(c) ==
    ~ (\/ IndexIn(c, Upper) > 0
       \/ IndexIn(c, Lower) > 0
       \/ IndexIn(c, Digits) > 0
       \/ c = "_")

\* strings.Title: upper-case the first letter of every word.
Title(s) ==
    [k \in 1..Len(s) |->
        IF k = 1 \/ IsSeparator(s[k-1]) THEN UpperOf(s[k]) ELSE s[k]]

RECURSIVE DigitsValue(_)
DigitsValue(s) ==
    IF s = Empty THEN 0
    ELSE 10 * DigitsValue(SubSeq(s, 1, Len(s) - 1))
         + (IndexIn(s[Len(s)], Digits) - 1)

\* strconv.Atoi: an optional sign followed by one or more decimal digits;
\* anything else is an error, and the value returned with an error is 0.
\* (The tokens of the model are far below the range of a 64-bit int.)
Atoi(s) ==
    LET signed == s # Empty /\ s[1] \in {"+", "-"}
        body   == IF signed THEN Tail(s) ELSE s
        ok     == body # Empty
                  /\ \A k \in 1..Len(body) : IndexIn(body[k], Digits) > 0
    IN  [ok  |-> ok,
         val |-> IF ~ok THEN 0
                 ELSE IF signed /\ s[1] = "-" THEN 0 - DigitsValue(body)
                 ELSE DigitsValue(body)]

\* parseBool
parseBool(s) == ToLower(s) = <<"t","r","u","e">>

\* ------------------------------------------------------ literals of main.go
sHelp2      == <<"-","-","h","e","l","p">>
sHelp1      == <<"-","h","e","l","p">>
sH          == <<"-","h">>
sTypeEq     == <<"-","-","t","y","p","e","=">>
sType2      == <<"-","-","t","y","p","e">>
sType1      == <<"-","t","y","p","e">>
sTitleEq    == <<"-","-","t","i","t","l","e","=">>
sTitle2     == <<"-","-","t","i","t","l","e">>
sTitle1     == <<"-","t","i","t","l","e">>
sTimeoutEq  == <<"-","-","t","i","m","e","o","u","t","=">>
sTimeout2   == <<"-","-","t","i","m","e","o","u","t">>
sTimeout1   == <<"-","t","i","m","e","o","u","t">>
sAutoEq     == <<"-","-","a","u","t","o","c","l","o","s","e","=">>
sAuto2      == <<"-","-","a","u","t","o","c","l","o","s","e">>
sAuto1      == <<"-","a","u","t","o","c","l","o","s","e">>
sDash       == <<"-">>

sSuccess    == <<"s","u","c","c","e","s","s">>
sError      == <<"e","r","r","o","r">>
sInfo       == <<"i","n","f","o">>
sWarning    == <<"w","a","r","n","i","n","g">>

\* validTypes
validTypes == <<sSuccess, sError, sInfo, sWarning>>

DefaultType    == sInfo
DefaultTimeout == 5

\* ------------------------------------------------- the argument vocabulary
\* Tokens the bounded argument vectors are built from.
Tokens ==
    { sHelp2, sHelp1, sH,
      sType2, sTypeEq \o sError,
      sTitle2,
      sTimeout2, sTimeout1, sTimeoutEq \o <<"7">>, sTimeoutEq \o <<"x">>,
      sAuto2, sAutoEq \o <<"f","a","l","s","e">>,
      <<"7">>, <<"x">>, sError, <<"I","n","f","o">>,
      Empty, <<"-","x">> }

Argvs == UNION { [1..n -> Tokens] : n \in 0..MaxArgs }

\* Argument vectors of the invocations that run side by side.
ConcArgvs == { << <<"x">> >>, << <<"x">>, sTypeEq \o sError >>, << sH >> }

Procs == {1, 2}


\* ------------------------------------------------------------------- state
VARIABLES
    args,           \* args[p]: os.Args[1:] of invocation p
    pc,             \* pc[p]: where invocation p is in main / displayNotification
    locals,         \* locals[p]: the local variables of main
    notification,   \* notification[p]: << >> or <<the Notification main built>>
    iconPath,       \* iconPath[p]: the local iconPath of displayNotification
    sent,           \* sent[p]: the toast notifications handed to Push, in order
    calls,          \* calls[p]: the file system and toast calls made, in order
    fs,             \* fs[path]: the icon files of the temp directory
    out,            \* out[p]: the lines printed on standard output
    exitCode        \* exitCode[p]: << >> while running, <<status>> once exited

vars == <<args, pc, locals, notification, iconPath, sent, calls, fs, out, exitCode>>

\* --------------------------------------------------------- argument parsing
\* A help test that misses the short form.
IsHelpLong(arg) == arg = sHelp2 \/ arg = sHelp1

\* The help test of the parsing loop.
IsHelp(arg) == arg = sHelp2 \/ arg = sHelp1 \/ arg = sH

\* A timeout assignment that drops the error of Atoi.
ParseTimeoutUnchecked(timeout, text) == Atoi(text).val

\* if val, err := strconv.Atoi(text); err == nil { timeout = val }
ParseTimeout(timeout, text) ==
    IF Atoi(text).ok THEN Atoi(text).val ELSE timeout

\* A positional assignment that keeps a message already set.
PositionalMessageKeep(message, arg) == IF message = Empty THEN arg ELSE message

\* message = arg
PositionalMessage(message, arg) == arg

\* One iteration of the parsing loop on a token other than a help token:
\* s is the record of main's locals, a the argument vector.
LoopBody(a, s) ==
    LET arg     == a[s.i + 1]
        hasNext == s.i + 1 < Len(a)
        next    == a[s.i + 2]
    IN  IF HasPrefix(arg, sTypeEq)
        THEN [s EXCEPT !.notificationType = TrimPrefix(arg, sTypeEq),
                       !.i = s.i + 1]
        ELSE IF (arg = sType2 \/ arg = sType1) /\ hasNext
        THEN [s EXCEPT !.notificationType = next, !.i = s.i + 2]
        ELSE IF HasPrefix(arg, sTitleEq)
        THEN [s EXCEPT !.customTitle = TrimPrefix(arg, sTitleEq),
                       !.i = s.i + 1]
        ELSE IF (arg = sTitle2 \/ arg = sTitle1) /\ hasNext
        THEN [s EXCEPT !.customTitle = next, !.i = s.i + 2]
        ELSE IF HasPrefix(arg, sTimeoutEq)
        THEN [s EXCEPT !.timeout =
                           ParseTimeout(s.timeout, TrimPrefix(arg, sTimeoutEq)),
                       !.i = s.i + 1]
        ELSE IF (arg = sTimeout2 \/ arg = sTimeout1) /\ hasNext
        THEN [s EXCEPT !.timeout = ParseTimeout(s.timeout, next),
                       !.i = s.i + 2]
        ELSE IF HasPrefix(arg, sAutoEq)
        THEN [s EXCEPT !.autoClose = parseBool(TrimPrefix(arg, sAutoEq)),
                       !.i = s.i + 1]
        ELSE IF (arg = sAuto2 \/ arg = sAuto1) /\ hasNext
        THEN [s EXCEPT !.autoClose = parseBool(next), !.i = s.i + 2]
        ELSE IF ~ HasPrefix(arg, sDash)
        THEN [s EXCEPT !.message = PositionalMessage(s.message, arg),
                       !.i = s.i + 1]
        ELSE [s EXCEPT !.i = s.i + 1]

\* The locals of main before the loop.
InitLocals ==
    [i                |-> 0,
     notificationType |-> DefaultType,
     timeout          |-> DefaultTimeout,
     autoClose        |-> TRUE,
     customTitle      |-> Empty,
     message          |-> Empty]

\* The exit status of os.Exit on a help token.
HelpExit == 0

\* The loop meets a help token: showHelp, os.Exit(0).
ParseHelp(p) ==
    /\ pc[p] = "parse"
    /\ locals[p].i < Len(args[p])
    /\ IsHelp(args[p][locals[p].i + 1])
    /\ out' = [out EXCEPT ![p] = Append(@, "usage")]
    /\ exitCode' = [exitCode EXCEPT ![p] = <<HelpExit>>]
    /\ pc' = [pc EXCEPT ![p] = "exit"]
    /\ UNCHANGED <<args, locals, notification, iconPath, sent, calls, fs>>

\* The loop handles any other token.
ParseArg(p) ==
    /\ pc[p] = "parse"
    /\ locals[p].i < Len(args[p])
    /\ ~ IsHelp(args[p][locals[p].i + 1])
    /\ locals' = [locals EXCEPT ![p] = LoopBody(args[p], @)]
    /\ UNCHANGED <<args, pc, notification, iconPath, sent, calls, fs, out, exitCode>>

\* --------------------------------------------------------------- validation
\* A type test that folds case.
IsValidTypeFold(t) == \E k \in 1..Len(validTypes) : validTypes[k] = ToLower(t)

IsValidType(t) == \E k \in 1..Len(validTypes) : validTypes[k] = t

\* title := customTitle; if title == "" { title = strings.Title(type) }
TitleOf(customTitle, notificationType) ==
    IF customTitle = Empty THEN Title(notificationType) ELSE customTitle

\* The Notification main builds from its locals.
NewNotification(s) ==
    [Type      |-> s.notificationType,
     Title     |-> TitleOf(s.customTitle, s.notificationType),
     Message   |-> s.message,
     Timeout   |-> s.timeout,
     AutoClose |-> s.autoClose]

\* The exit status of os.Exit after a failed validation.
ValidationExit == 1

\* After the loop: the message and type checks, then the request is built.
Validate(p) ==
    /\ pc[p] = "parse"
    /\ locals[p].i >= Len(args[p])
    /\ IF locals[p].message = Empty
       THEN /\ out' = [out EXCEPT ![p] = @ \o <<"message required", "usage">>]
            /\ exitCode' = [exitCode EXCEPT ![p] = <<ValidationExit>>]
            /\ pc' = [pc EXCEPT ![p] = "exit"]
            /\ UNCHANGED notification
       ELSE IF ~ IsValidType(locals[p].notificationType)
       THEN /\ out' = [out EXCEPT ![p] = Append(@, "invalid type")]
            /\ exitCode' = [exitCode EXCEPT ![p] = <<ValidationExit>>]
            /\ pc' = [pc EXCEPT ![p] = "exit"]
            /\ UNCHANGED notification
       ELSE /\ notification' =
                [notification EXCEPT ![p] = <<NewNotification(locals[p])>>]
            /\ pc' = [pc EXCEPT ![p] = "createIcon"]
            /\ UNCHANGED <<out, exitCode>>
    /\ UNCHANGED <<args, locals, iconPath, sent, calls, fs>>

\* ------------------------------------------------------------ icon synthesis
\* os.TempDir(), the same directory for every invocation of one user.
TempDir == <<"T","M","P","/">>

\* An icon path that leaves the type out of the file name.
IconPathShared(nType) ==
    TempDir \o <<"n","o","t","i","f","y","_","i","c","o","n">>
            \o <<".","p","n","g">>

\* filepath.Join(tempDir, fmt.Sprintf("notify_icon_%s.png", nType))
IconPath(nType) ==
    TempDir \o <<"n","o","t","i","f","y","_","i","c","o","n","_">>
            \o nType \o <<".","p","n","g">>

IconPaths == { IconPath(validTypes[k]) : k \in 1..Len(validTypes) }

TypeOf(p) == notification[p][1].Type

\* An os.Create whose failure aborts the run.
OsCreateAbort(p) ==
    /\ pc[p] = "createIcon"
    /\ \E ok \in BOOLEAN :
        /\ calls' = [calls EXCEPT ![p] = Append(@, [op |-> "os.Create", ok |-> ok])]
        /\ IF ok
           THEN /\ fs' = [fs EXCEPT ![IconPath(TypeOf(p))] = "partial"]
                /\ pc' = [pc EXCEPT ![p] = "encode"]
                /\ UNCHANGED <<out, exitCode>>
           ELSE /\ out' = [out EXCEPT ![p] = Append(@, "error displaying")]
                /\ exitCode' = [exitCode EXCEPT ![p] = <<1>>]
                /\ pc' = [pc EXCEPT ![p] = "exit"]
                /\ UNCHANGED fs
    /\ UNCHANGED <<args, locals, notification, iconPath, sent>>

\* createIcon up to os.Create: the file is created or truncated, or the
\* call fails and displayNotification goes on with an empty icon path.
OsCreate(p) ==
    /\ pc[p] = "createIcon"
    /\ \E ok \in BOOLEAN :
        /\ calls' = [calls EXCEPT ![p] = Append(@, [op |-> "os.Create", ok |-> ok])]
        /\ IF ok
           THEN /\ fs' = [fs EXCEPT ![IconPath(TypeOf(p))] = "partial"]
                /\ pc' = [pc EXCEPT ![p] = "encode"]
                /\ UNCHANGED iconPath
           ELSE /\ iconPath' = [iconPath EXCEPT ![p] = Empty]
                /\ pc' = [pc EXCEPT ![p] = "push"]
                /\ UNCHANGED fs
    /\ UNCHANGED <<args, locals, notification, sent, out, exitCode>>

\* createIcon from png.Encode to its return: the image is written to the
\* open file (a file unlinked meanwhile stays unlinked), or the encoding
\* fails and displayNotification goes on with an empty icon path.
PngEncode(p) ==
    /\ pc[p] = "encode"
    /\ \E ok \in BOOLEAN :
        /\ calls' = [calls EXCEPT ![p] = Append(@, [op |-> "png.Encode", ok |-> ok])]
        /\ IF ok
           THEN /\ fs' = [fs EXCEPT ![IconPath(TypeOf(p))] =
                              IF @ = "absent" THEN "absent" ELSE "png"]
                /\ iconPath' = [iconPath EXCEPT ![p] = IconPath(TypeOf(p))]
           ELSE /\ iconPath' = [iconPath EXCEPT ![p] = Empty]
                /\ UNCHANGED fs
    /\ pc' = [pc EXCEPT ![p] = "push"]
    /\ UNCHANGED <<args, locals, notification, sent, out, exitCode>>

\* ----------------------------------------------------------------- dispatch
\* A duration that also looks at the timeout.
DurationByTimeout(n) ==
    IF ~ n.AutoClose \/ n.Timeout > DefaultTimeout THEN "long" ELSE "short"

\* Duration: toast.Short, and toast.Long if !n.AutoClose
Duration(n) == IF ~ n.AutoClose THEN "long" ELSE "short"

\* The audio switch on n.Type.
Audio(n) ==
    IF n.Type \in {sSuccess, sError, sWarning} THEN "default" ELSE "silent"

\* The toast.Notification displayNotification builds.
BuildToast(n, icon) ==
    [AppID               |-> "Notify CLI",
     Title               |-> n.Title,
     Message             |-> n.Message,
     Icon                |-> icon,
     Duration            |-> Duration(n),
     Audio               |-> Audio(n),
     ActivationType      |-> "protocol",
     ActivationArguments |-> "dismiss"]

\* What the notification surface finds at the icon path of a toast.
IconFile(icon) == IF icon = Empty THEN "none" ELSE fs[icon]

\* The exit status of os.Exit after a failed Push.
DisplayErrorExit == 1

\* A Push whose error is dropped.
PushUnchecked(p) ==
    /\ pc[p] = "push"
    /\ \E ok \in BOOLEAN :
        /\ calls' = [calls EXCEPT ![p] = Append(@, [op |-> "Push", ok |-> ok])]
        /\ sent' = [sent EXCEPT ![p] =
                      Append(@, [toast    |-> BuildToast(notification[p][1], iconPath[p]),
                                 iconFile |-> IconFile(iconPath[p])])]
        /\ pc' = [pc EXCEPT ![p] = "cleanup"]
    /\ UNCHANGED <<args, locals, notification, iconPath, fs, out, exitCode>>

\* A Push that is tried again after an error.
PushRetry(p) ==
    /\ pc[p] = "push"
    /\ \E ok \in BOOLEAN :
        /\ calls' = [calls EXCEPT ![p] = Append(@, [op |-> "Push", ok |-> ok])]
        /\ sent' = [sent EXCEPT ![p] =
                      Append(@, [toast    |-> BuildToast(notification[p][1], iconPath[p]),
                                 iconFile |-> IconFile(iconPath[p])])]
        /\ pc' = [pc EXCEPT ![p] = IF ok THEN "cleanup" ELSE "push"]
    /\ UNCHANGED <<args, locals, notification, iconPath, fs, out, exitCode>>

\* notification.Push(): on an error displayNotification returns it at once
\* and main prints it and exits.
Push(p) ==
    /\ pc[p] = "push"
    /\ \E ok \in BOOLEAN :
        /\ calls' = [calls EXCEPT ![p] = Append(@, [op |-> "Push", ok |-> ok])]
        /\ sent' = [sent EXCEPT ![p] =
                      Append(@, [toast    |-> BuildToast(notification[p][1], iconPath[p]),
                                 iconFile |-> IconFile(iconPath[p])])]
        /\ IF ok
           THEN /\ pc' = [pc EXCEPT ![p] = "cleanup"]
                /\ UNCHANGED <<out, exitCode>>
           ELSE /\ out' = [out EXCEPT ![p] = Append(@, "error displaying")]
                /\ exitCode' = [exitCode EXCEPT ![p] = <<DisplayErrorExit>>]
                /\ pc' = [pc EXCEPT ![p] = "exit"]
    /\ UNCHANGED <<args, locals, notification, iconPath, fs>>

\* The exit status of a main that returns.
ReturnExit == 0

\* After the grace sleep: os.Remove(iconPath) if there is an icon path, its
\* error ignored; displayNotification returns nil and main returns.
Cleanup(p) ==
    /\ pc[p] = "cleanup"
    /\ IF iconPath[p] # Empty
       THEN \E ok \in BOOLEAN :
              LET removed == ok /\ fs[iconPath[p]] # "absent"
              IN  /\ calls' = [calls EXCEPT ![p] =
                                 Append(@, [op |-> "os.Remove", ok |-> removed])]
                  /\ fs' = IF removed
                           THEN [fs EXCEPT ![iconPath[p]] = "absent"]
                           ELSE fs
       ELSE UNCHANGED <<calls, fs>>
    /\ exitCode' = [exitCode EXCEPT ![p] = <<ReturnExit>>]
    /\ pc' = [pc EXCEPT ![p] = "exit"]
    /\ UNCHANGED <<args, locals, notification, iconPath, sent, out>>

\* ----------------------------------------------------------- specifications
InitProc ==
    /\ locals = [p \in Procs |-> InitLocals]
    /\ notification = [p \in Procs |-> << >>]
    /\ iconPath = [p \in Procs |-> Empty]
    /\ sent = [p \in Procs |-> << >>]
    /\ calls = [p \in Procs |-> << >>]
    /\ fs = [path \in IconPaths |-> "absent"]
    /\ out = [p \in Procs |-> << >>]
    /\ exitCode = [p \in Procs |-> << >>]

\* One invocation, started with any bounded argument vector.
Init ==
    /\ args \in { [p \in Procs |-> IF p = 1 THEN a ELSE << >>] : a \in Argvs }
    /\ pc = [p \in Procs |-> IF p = 1 THEN "parse" ELSE "notStarted"]
    /\ InitProc

\* Two invocations running side by side.
InitConc ==
    /\ args \in [Procs -> ConcArgvs]
    /\ pc = [p \in Procs |-> "parse"]
    /\ InitProc

Next ==
    \E p \in Procs :
        \/ ParseHelp(p)
        \/ ParseArg(p)
        \/ Validate(p)
        \/ OsCreate(p)
        \/ PngEncode(p)
        \/ Push(p)
        \/ Cleanup(p)

Spec == Init /\ [][Next]_vars

SpecConc == InitConc /\ [][Next]_vars


\* ------------------------------------------------------ vocabulary of claims
HelpTokens == { sHelp2, sHelp1, sH }

ValueFlags == { sType2, sType1, sTitle2, sTitle1,
                sTimeout2, sTimeout1, sAuto2, sAuto1 }

FourTypes == { sSuccess, sError, sInfo, sWarning }

\* Token k of a is taken as the value of the flag before it.
RECURSIVE Consumed(_, _)
Consumed(a, k) ==
    /\ k > 1
    /\ a[k-1] \in ValueFlags
    /\ ~ Consumed(a, k - 1)

\* The positions of the tokens that do not start with a dash and are not
\* taken as a flag value.
Positionals(a) ==
    { k \in 1..Len(a) : ~ HasPrefix(a[k], sDash) /\ ~ Consumed(a, k) }

First(S) == CHOOSE k \in S : \A j \in S : k <= j
Last(S)  == CHOOSE k \in S : \A j \in S : j <= k

Started(p) == pc[p] # "notStarted"
Exited(p)  == pc[p] = "exit"

\* The parsing loop of p has run to its end.
ParseDone(p) == Started(p) /\ locals[p].i >= Len(args[p])

\* p ended on a help token: the usage text is all it printed.
HelpRun(p) == Exited(p) /\ out[p] = <<"usage">>

Called(p, op, ok) ==
    \E k \in 1..Len(calls[p]) : calls[p][k] = [op |-> op, ok |-> ok]

Ops(p) == [k \in 1..Len(calls[p]) |-> calls[p][k].op]

IsPrefix(s, t) == Len(s) <= Len(t) /\ SubSeq(t, 1, Len(s)) = s

IconFailed(p) == Called(p, "os.Create", FALSE) \/ Called(p, "png.Encode", FALSE)

\* ------------------------------------------------------------------- claims

\* C1: an invocation ends with exit code 0 exactly when it ended on a help
\* token or its Push succeeded, and with a non-zero exit code exactly when
\* validation found the message missing or the type invalid, or the Push
\* failed; an invocation that has not ended has no exit code.
C1_ExitCodes ==
    \A p \in Procs :
        /\ ~ Exited(p) => exitCode[p] = << >>
        /\ Exited(p) =>
             LET missing == ParseDone(p) /\ locals[p].message = Empty
                 invalid == ParseDone(p)
                            /\ locals[p].notificationType \notin FourTypes
             IN  /\ exitCode[p] \in { <<0>>, <<1>> }
                 /\ exitCode[p] = <<0>>
                      <=> (HelpRun(p) \/ Called(p, "Push", TRUE))
                 /\ exitCode[p] # <<0>>
                      <=> (missing \/ invalid \/ Called(p, "Push", FALSE))

\* C1 witness: a run whose Push failed has ended with exit code 1.
C1_Witness ==
    Exited(1) /\ Called(1, "Push", FALSE) /\ exitCode[1] = <<1>>

\* C2 as stated: once the loop has run to its end over two or more
\* positional tokens, the message is the first of them.
C2_FirstPositionalWins ==
    \A p \in Procs :
        (ParseDone(p) /\ Cardinality(Positionals(args[p])) >= 2)
            => locals[p].message = args[p][First(Positionals(args[p]))]

\* C2 amended: once the loop has run to its end over two or more positional
\* tokens, the message is the last of them.
C2_LastPositionalWins ==
    \A p \in Procs :
        (ParseDone(p) /\ Cardinality(Positionals(args[p])) >= 2)
            => locals[p].message = args[p][Last(Positionals(args[p]))]

\* C2 witness: a run over two different positional tokens was dispatched with
\* the second one as its message.
C2_Witness ==
    /\ args[1] = << <<"x">>, <<"7">> >>
    /\ Len(sent[1]) = 1
    /\ sent[1][1].toast.Message = <<"7">>

\* C3 as stated: a run whose argument vector holds a help token anywhere
\* ends with the usage text and exit code 0.
C3_HelpAnywhere ==
    \A p \in Procs :
        (Exited(p) /\ \E k \in 1..Len(args[p]) : args[p][k] \in HelpTokens)
            => (out[p] = <<"usage">> /\ exitCode[p] = <<0>>)

\* C3 amended: a run whose argument vector holds a help token that is not
\* taken as the value of the flag before it ends with the usage text and
\* exit code 0, without any file system or toast call.
C3_HelpNotConsumed ==
    \A p \in Procs :
        (Exited(p) /\ \E k \in 1..Len(args[p]) :
                         args[p][k] \in HelpTokens /\ ~ Consumed(args[p], k))
            => (out[p] = <<"usage">> /\ exitCode[p] = <<0>> /\ calls[p] = << >>)

\* C3 witness: a run with an invalid type and no message, and the short help
\* token last, has ended on the usage text with exit code 0.
C3_Witness ==
    /\ args[1] = << sType2, <<"x">>, sH >>
    /\ Exited(1)
    /\ out[1] = <<"usage">>
    /\ exitCode[1] = <<0>>

\* C4 as stated: a run that reached the Push and has ended, no os.Remove of
\* its own having failed, leaves no icon file behind.
C4_IconDeletedAtExit ==
    (Exited(1) /\ (Called(1, "Push", TRUE) \/ Called(1, "Push", FALSE))
               /\ ~ Called(1, "os.Remove", FALSE))
        => \A path \in IconPaths : fs[path] = "absent"

BadTimeoutAt(p) ==
    /\ pc[p] = "parse"
    /\ locals[p].i < Len(args[p])
    /\ LET arg == args[p][locals[p].i + 1]
       IN  \/ /\ HasPrefix(arg, sTimeoutEq)
              /\ ~ Atoi(TrimPrefix(arg, sTimeoutEq)).ok
           \/ /\ arg \in {sTimeout2, sTimeout1}
              /\ locals[p].i + 1 < Len(args[p])
              /\ ~ Atoi(args[p][locals[p].i + 2]).ok

\* C6: a step of the loop on a timeout flag whose value is not an integer
\* changes nothing but the loop index, which moves past the flag (and its
\* value): the timeout keeps its value, nothing is printed and the run does
\* not exit.
C6_BadTimeoutKeepsValue ==
    [][\A p \in Procs :
         BadTimeoutAt(p) =>
            /\ pc'[p] = "parse"
            /\ exitCode'[p] = << >>
            /\ out'[p] = out[p]
            /\ locals'[p].timeout = locals[p].timeout
            /\ locals'[p] # locals[p] =>
                 locals'[p] = [locals[p] EXCEPT !.i =
                     IF HasPrefix(args[p][locals[p].i + 1], sTimeoutEq)
                     THEN @ + 1 ELSE @ + 2]
      ]_vars

\* C6 witness: a run with a valid timeout flag, then a malformed one, then
\* the message, was dispatched with the timeout of the valid flag.
C6_Witness ==
    /\ args[1] = << sTimeoutEq \o <<"7">>, sTimeoutEq \o <<"x">>, <<"x">> >>
    /\ Len(sent[1]) = 1
    /\ notification[1][1].Timeout = 7

\* C7: a run whose icon synthesis failed and that is past the Push has made
\* exactly one Push, with an empty icon path and otherwise the toast it
\* would have made with the icon, and once ended its exit code is 0 if the
\* Push succeeded and 1 if it failed.
C7_IconFailureNotFatal ==
    \A p \in Procs :
        (IconFailed(p) /\ pc[p] \in {"cleanup", "exit"}) =>
            LET n == notification[p][1]
            IN  /\ Len(sent[p]) = 1
                /\ sent[p][1].toast = BuildToast(n, Empty)
                /\ sent[p][1].toast =
                     [BuildToast(n, IconPath(n.Type)) EXCEPT !.Icon = Empty]
                /\ sent[p][1].toast.Title = n.Title
                /\ sent[p][1].toast.Message = n.Message
                /\ Exited(p) =>
                     exitCode[p] = IF Called(p, "Push", TRUE) THEN <<0>> ELSE <<1>>

\* C7 witness: a run whose os.Create failed has ended with exit code 0 after
\* a successful Push without icon.
C7_Witness ==
    /\ Called(1, "os.Create", FALSE)
    /\ Called(1, "Push", TRUE)
    /\ sent[1][1].toast.Icon = Empty
    /\ exitCode[1] = <<0>>

\* The call sequences of a complete run that passed validation.
AllowedRuns ==
    { <<"os.Create", "Push">>,
      <<"os.Create", "png.Encode", "Push">>,
      <<"os.Create", "png.Encode", "Push", "os.Remove">> }

\* C8: the calls of a run are a prefix of os.Create, png.Encode, Push,
\* os.Remove with no call repeated; a run that passed validation and has
\* ended made one icon request and one Push; os.Remove is made only after a
\* successful Push and is made whenever the icon was ready and the Push
\* succeeded; the exit code is 0 after a successful Push and 1 after a
\* failed one.
C8_SinglePassOrder ==
    \A p \in Procs :
        /\ \E run \in AllowedRuns : IsPrefix(Ops(p), run)
        /\ Called(p, "os.Remove", TRUE) \/ Called(p, "os.Remove", FALSE)
             => Called(p, "Push", TRUE)
        /\ (Exited(p) /\ notification[p] # << >>) =>
             /\ Ops(p) \in AllowedRuns
             /\ Len(sent[p]) = 1
             /\ Called(p, "Push", TRUE) => exitCode[p] = <<0>>
             /\ Called(p, "Push", FALSE) => exitCode[p] = <<1>>
             /\ (Called(p, "Push", TRUE) /\ Called(p, "png.Encode", TRUE))
                  => Ops(p)[Len(Ops(p))] = "os.Remove"

\* C8 witness: a run has ended with exit code 1 after a failed Push that
\* followed a successful icon synthesis.
C8_Witness ==
    /\ Exited(1)
    /\ Ops(1) = <<"os.Create", "png.Encode", "Push">>
    /\ Called(1, "png.Encode", TRUE)
    /\ Called(1, "Push", FALSE)
    /\ exitCode[1] = <<1>>

\* C9: two invocations for the same type that both have an icon path have
\* the same one; and a toast with a non-empty icon path, handed to Push while
\* the other invocation is not for the same type, names a file that exists.
C9_IconFileRace ==
    \A p \in Procs : \A q \in Procs \ {p} :
        /\ (notification[p] # << >> /\ notification[q] # << >>
            /\ TypeOf(p) = TypeOf(q)
            /\ iconPath[p] # Empty /\ iconPath[q] # Empty)
             => iconPath[p] = iconPath[q]
        /\ (sent[p] # << >>
            /\ sent[p][1].toast.Icon # Empty
            /\ (notification[q] = << >> \/ TypeOf(q) # TypeOf(p)))
             => sent[p][1].iconFile # "absent"

\* C9 witness: two invocations for the same type, and the toast of the first
\* was handed to Push with a non-empty icon path naming a file that the
\* second had removed.
C9_Witness ==
    /\ notification[1] # << >> /\ notification[2] # << >>
    /\ TypeOf(1) = TypeOf(2)
    /\ Called(2, "os.Remove", TRUE)
    /\ sent[1] # << >>
    /\ sent[1][1].toast.Icon # Empty
    /\ sent[1][1].iconFile = "absent"

\* C10: a run that ended on a help token, on a missing message or on a type
\* outside the four tokens made no file system or toast call and left no
\* icon file; every toast handed to Push has a non-empty message, a
\* non-empty title and a request type among the four tokens.
C10_NoEffectBeforeValidation ==
    /\ \A p \in Procs :
         (Exited(p) /\ (\/ HelpRun(p)
                        \/ locals[p].message = Empty
                        \/ locals[p].notificationType \notin FourTypes))
            => /\ calls[p] = << >>
               /\ sent[p] = << >>
               /\ notification[p] = << >>
               /\ pc[2] = "notStarted" => \A path \in IconPaths : fs[path] = "absent"
    /\ \A p \in Procs : \A k \in 1..Len(sent[p]) :
         /\ sent[p][k].toast.Message # Empty
         /\ sent[p][k].toast.Title # Empty
         /\ notification[p][1].Type \in FourTypes

\* C10 witness: a run with a message and the type "Info" has ended with exit
\* code 1 and without any call.
C10_Witness ==
    /\ Exited(1)
    /\ locals[1].message # Empty
    /\ locals[1].notificationType = <<"I","n","f","o">>
    /\ calls[1] = << >>
    /\ exitCode[1] = <<1>>

====
